---- MODULE Spec2Model ----
(***************************************************************************)
(* FRustDetailCustomization (RustPlugin/Private/FRustDetailCustomization   *)
(* .cpp): the detail-panel customization of UEntityComponent.              *)
(*                                                                         *)
(* The program's state is the Components map of the entity component being *)
(* edited, the layout builders the editor has handed to CustomizeDetails,  *)
(* and the picker widgets that hold the OnPicked lambda.  The editor (the  *)
(* host) draws the panel (CustomizeDetails), delivers pick events (the     *)
(* OnPicked lambda), drops the widgets of a replaced layout and may        *)
(* destroy the component.                                                  *)
(*                                                                         *)
(* Host calls are modelled by what the editor's property-handle API does:  *)
(*   - IPropertyHandleMap::AddItem appends an entry with the default key   *)
(*     unless the map already holds the default key; it then returns Fail  *)
(*     and adds nothing.  The lambda ignores the result.                   *)
(*   - IPropertyHandle::SetValue on a map key is refused when another      *)
(*     entry already has that key (a map has no duplicate keys).  The      *)
(*     lambda ignores the result.                                          *)
(*   - GetChildHandle returns a null handle for an index out of range.     *)
(***************************************************************************)
EXTENDS Integers, Sequences, FiniteSets, TLC

VARIABLES
    Components,   \* UEntityComponent::Components, in child-handle order
    liveObjects,  \* the UObjects that still exist (TWeakObjectPtr validity)
    builders,     \* every IDetailLayoutBuilder passed to CustomizeDetails so far
    widgets,      \* every SRustDropdownList created so far, with its delegate's captures
    crashed,      \* the editor process has stopped (failed check / wild access)
    calls,        \* the host calls made by the last handler, in order
    ev,           \* the last event: handler, inputs, and what it observed
    accepted,     \* number of pick events that passed the null guard
    initLen       \* number of entries of Components at start

vars == <<Components, liveObjects, builders, widgets, crashed, calls, ev, accepted, initLen>>

----------------------------------------------------------------------------
(* Bounds *)

MaxBuilders == 2      \* CustomizeDetails invocations explored
MaxPicks == 2         \* pick events explored
NumUuids == 2         \* distinct UUIDs offered by the picker

----------------------------------------------------------------------------
(* Values *)

NullNode == 0                 \* FUuidViewNode* == nullptr
NoValue == 0                  \* a default-constructed map value (not yet initialised)
NoChild == 0                  \* a null child handle
Half == 65536                 \* a uint32 is kept as two 16-bit halves [hi, lo]

Nodes == 0..NumUuids          \* NullNode, or the node with Id = n
NullObj == "null"
EntityObj == "ec"             \* a UEntityComponent
OtherObj == "actor"           \* a UObject of another class
DefaultKey == ""              \* the key of a freshly added entry

\* FGuid::ToString: the string form of an Id; never the default key
UuidToString(id) == "uuid-" \o ToString(id)

\* the selections the editor can hand to GetObjectsBeingCustomized
ObjectLists == {<<>>, <<EntityObj>>, <<OtherObj>>, <<OtherObj, EntityObj>>}

----------------------------------------------------------------------------
(* uint32 arithmetic of  NumChildren - 1 *)

ToU32(n) == [hi |-> (n \div Half) % Half, lo |-> n % Half]

SubOneU32(x) ==
    IF x.lo > 0 THEN [hi |-> x.hi, lo |-> x.lo - 1]
    ELSE IF x.hi > 0 THEN [hi |-> x.hi - 1, lo |-> Half - 1]
    ELSE [hi |-> Half - 1, lo |-> Half - 1]

\* line 43: NumChildren - 1
LastIndex(num) == SubOneU32(num)

----------------------------------------------------------------------------
(* The host's property-handle API on the map *)

HasDefaultKey(m) == \E i \in 1..Len(m) : m[i].key = DefaultKey

\* ComponentsHandle->AsMap()->AddItem()
AddItem(m) ==
    IF HasDefaultKey(m) THEN m
    ELSE Append(m, [key |-> DefaultKey, value |-> NoValue])

\* ComponentsHandle->GetNumChildren(NumChildren)
GetNumChildren(m) == ToU32(Len(m))

\* ComponentsHandle->GetChildHandle(Index): 1-based position of the child, or NoChild
GetChildHandle(m, idx) ==
    IF idx.hi = 0 /\ idx.lo < Len(m) THEN idx.lo + 1 ELSE NoChild

\* KeyProp->SetValue(String)
SetValue(m, c, s) ==
    IF \E i \in 1..Len(m) : i # c /\ m[i].key = s THEN m
    ELSE [m EXCEPT ![c].key = s]

\* FDynamicRustComponent::Initialize(ChildProp, Id)
Initialize(m, c, id) == [m EXCEPT ![c].value = id]

----------------------------------------------------------------------------
(* CustomizeDetails *)

\* faulty variant of the guard: an empty selection is not recognised
IsEmptyNever(objs) == FALSE

\* line 23: Objects.IsEmpty()
IsEmpty(objs) == Len(objs) = 0

\* Objects[Index]
ObjectAt(objs, i) == IF i < Len(objs) THEN objs[i + 1] ELSE NullObj

\* line 26: Cast<UEntityComponent>(Object)
Cast(obj) == IF obj = EntityObj THEN obj ELSE NullObj

\* FDynamicRustComponent::Render: one row per existing entry
Render(rows, m) == rows \o [i \in 1..Len(m) |-> "Component"]

\* RustCategory.AddCustomRow(LOCTEXT("Picker", "Picker"))
AddCustomRow(rows) == Append(rows, "Picker")

EmptyLayout(objs) ==
    [live |-> TRUE, objs |-> objs, handle |-> FALSE, categories |-> {},
     rows |-> <<>>, renders |-> 0, pickers |-> 0, refreshes |-> 0]

\* faulty variant of the layout: the picker row is added before the entries are rendered
BuildLayoutPickerFirst(objs, m) ==
    [live |-> TRUE, objs |-> objs, handle |-> TRUE, categories |-> {"Rust"},
     rows |-> Render(AddCustomRow(<<>>), m), renders |-> 1, pickers |-> 1,
     refreshes |-> 0]

\* lines 29-57: what CustomizeDetails does to the builder of a non-empty selection
BuildLayout(objs, m) ==
    [live |-> TRUE, objs |-> objs, handle |-> TRUE, categories |-> {"Rust"},
     rows |-> AddCustomRow(Render(<<>>, m)), renders |-> 1, pickers |-> 1,
     refreshes |-> 0]

\* lines 34, 56: the widget holding the OnPicked lambda and its captures
\* (Component by value, DetailBuilder by reference)
PickerWidget(b, objs) ==
    [builder |-> b, component |-> Cast(ObjectAt(objs, 0)), delegate |-> "OnPicked",
     live |-> TRUE]

\* the editor replaces the layout builder of the panel when it draws it again
Replaced(bs) == [i \in 1..Len(bs) |-> [bs[i] EXCEPT !.live = FALSE]]

CustomizeDetails(objs) ==
    /\ ~crashed
    /\ Len(builders) < MaxBuilders
    /\ \A i \in 1..Len(objs) : objs[i] \in liveObjects
    /\ LET b == Len(builders) + 1 IN
       IF IsEmpty(objs)
       THEN /\ builders' = Append(Replaced(builders), EmptyLayout(objs))
            /\ widgets' = widgets
            /\ calls' = <<"GetObjectsBeingCustomized">>
       ELSE /\ builders' = Append(Replaced(builders), BuildLayout(objs, Components))
            /\ widgets' = Append(widgets, PickerWidget(b, objs))
            /\ calls' = <<"GetObjectsBeingCustomized", "GetProperty", "EditCategory",
                          "Render", "AddCustomRow">>
    /\ ev' = [op |-> "CustomizeDetails", objs |-> objs, node |-> NullNode,
              widget |-> 0, before |-> Components, num |-> ToU32(0),
              child |-> NoChild, atRefresh |-> <<>>, stale |-> FALSE]
    /\ UNCHANGED <<Components, liveObjects, crashed, accepted, initLen>>

----------------------------------------------------------------------------
(* The OnPicked lambda *)

\* TWeakObjectPtr == nullptr: null, or the object no longer exists
IsNullWeak(comp, live) == comp = NullObj \/ comp \notin live

\* faulty variant of the guard: only the node is checked
RejectedNodeOnly(node, comp, live) == node = NullNode

\* faulty variant of the guard: only the component is checked
RejectedComponentOnly(node, comp, live) == IsNullWeak(comp, live)

\* line 36: Node == nullptr || Component == nullptr
Rejected(node, comp, live) == node = NullNode \/ IsNullWeak(comp, live)

\* faulty variant of the body: the refresh is requested before Initialize has run
PickBodyRefreshEarly(m, node) ==
    LET m1 == AddItem(m)
        num == GetNumChildren(m1)
        c == GetChildHandle(m1, LastIndex(num))
    IN  IF c = NoChild
        THEN [map |-> m1, num |-> num, child |-> c, crashed |-> TRUE,
              refresh |-> FALSE, atRefresh |-> <<>>,
              calls |-> <<"AddItem", "GetNumChildren", "GetChildHandle">>]
        ELSE LET m2 == SetValue(m1, c, UuidToString(node))
                 m3 == Initialize(m2, c, node)
             IN  [map |-> m3, num |-> num, child |-> c, crashed |-> FALSE,
                  refresh |-> TRUE, atRefresh |-> m2,
                  calls |-> <<"AddItem", "GetNumChildren", "GetChildHandle",
                              "GetKeyHandle", "SetValue", "ForceRefreshDetails",
                              "Initialize">>]

\* lines 39-49: the body of an accepted pick, up to the refresh request.
\* A null child handle fails the check of TSharedPtr::operator-> (line 44).
PickBody(m, node) ==
    LET m1 == AddItem(m)
        num == GetNumChildren(m1)
        c == GetChildHandle(m1, LastIndex(num))
    IN  IF c = NoChild
        THEN [map |-> m1, num |-> num, child |-> c, crashed |-> TRUE,
              refresh |-> FALSE, atRefresh |-> <<>>,
              calls |-> <<"AddItem", "GetNumChildren", "GetChildHandle">>]
        ELSE LET m2 == SetValue(m1, c, UuidToString(node))
                 m3 == Initialize(m2, c, node)
             IN  [map |-> m3, num |-> num, child |-> c, crashed |-> FALSE,
                  refresh |-> TRUE, atRefresh |-> m3,
                  calls |-> <<"AddItem", "GetNumChildren", "GetChildHandle",
                              "GetKeyHandle", "SetValue", "Initialize",
                              "ForceRefreshDetails">>]

\* DetailBuilder.ForceRefreshDetails() on a builder that still exists
ForceRefreshDetails(bs, b) == [bs EXCEPT ![b].refreshes = @ + 1]

OnPicked(w, node) ==
    /\ ~crashed
    /\ accepted < MaxPicks
    /\ widgets[w].live
    /\ LET comp == widgets[w].component
           b == widgets[w].builder
       IN  IF Rejected(node, comp, liveObjects)
           THEN /\ calls' = <<>>
                /\ ev' = [op |-> "OnPicked", objs |-> <<>>, node |-> node,
                          widget |-> w, before |-> Components, num |-> ToU32(0),
                          child |-> NoChild, atRefresh |-> <<>>, stale |-> FALSE]
                /\ UNCHANGED <<Components, builders, crashed, accepted>>
           ELSE LET r == PickBody(Components, node)
                    stale == r.refresh /\ ~builders[b].live
                IN  /\ Components' = r.map
                    /\ calls' = r.calls
                    /\ accepted' = accepted + 1
                    /\ ev' = [op |-> "OnPicked", objs |-> <<>>, node |-> node,
                              widget |-> w, before |-> Components, num |-> r.num,
                              child |-> r.child, atRefresh |-> r.atRefresh,
                              stale |-> stale]
                    /\ IF ~r.refresh
                       THEN crashed' = r.crashed /\ builders' = builders
                       ELSE IF stale
                       \* the referenced builder is gone: the call is undefined
                       THEN crashed' \in BOOLEAN /\ builders' = builders
                       ELSE crashed' = FALSE /\ builders' = ForceRefreshDetails(builders, b)
    /\ UNCHANGED <<liveObjects, widgets, initLen>>

----------------------------------------------------------------------------
(* The host *)

\* the panel's widget tree is rebuilt: widgets of replaced layouts are released
ReleaseWidgets ==
    /\ ~crashed
    /\ \E w \in 1..Len(widgets) : widgets[w].live /\ ~builders[widgets[w].builder].live
    /\ widgets' = [w \in 1..Len(widgets) |->
                      [widgets[w] EXCEPT !.live = @ /\ builders[widgets[w].builder].live]]
    /\ calls' = <<>>
    /\ ev' = [op |-> "ReleaseWidgets", objs |-> <<>>, node |-> NullNode,
              widget |-> 0, before |-> Components, num |-> ToU32(0),
              child |-> NoChild, atRefresh |-> <<>>, stale |-> FALSE]
    /\ UNCHANGED <<Components, liveObjects, builders, crashed, accepted, initLen>>

\* the component is destroyed; weak references to it become null
DestroyComponent ==
    /\ ~crashed
    /\ EntityObj \in liveObjects
    /\ liveObjects' = liveObjects \ {EntityObj}
    /\ calls' = <<>>
    /\ ev' = [op |-> "DestroyComponent", objs |-> <<>>, node |-> NullNode,
              widget |-> 0, before |-> Components, num |-> ToU32(0),
              child |-> NoChild, atRefresh |-> <<>>, stale |-> FALSE]
    /\ UNCHANGED <<Components, builders, widgets, crashed, accepted, initLen>>

----------------------------------------------------------------------------

InitialMaps == {<<>>, <<[key |-> UuidToString(1), value |-> 1]>>}

Init ==
    /\ Components \in InitialMaps
    /\ liveObjects = {EntityObj, OtherObj}
    /\ builders = <<>>
    /\ widgets = <<>>
    /\ crashed = FALSE
    /\ calls = <<>>
    /\ ev = [op |-> "Init", objs |-> <<>>, node |-> NullNode,
             widget |-> 0, before |-> Components, num |-> ToU32(0),
             child |-> NoChild, atRefresh |-> <<>>, stale |-> FALSE]
    /\ accepted = 0
    /\ initLen = Len(Components)

Next ==
    \/ \E objs \in ObjectLists : CustomizeDetails(objs)
    \/ \E w \in 1..Len(widgets) : \E node \in Nodes : OnPicked(w, node)
    \/ ReleaseWidgets
    \/ DestroyComponent

Spec == Init /\ [][Next]_vars

----------------------------------------------------------------------------
(* Properties *)

\* the last event was a pick that passed the guard of line 36
PickAccepted ==
    /\ ev.op = "OnPicked"
    /\ ev.node # NullNode
    /\ widgets[ev.widget].component # NullObj
    /\ widgets[ev.widget].component \in liveObjects

\* the last event was a pick that the guard of line 36 turned away
PickRefused == ev.op = "OnPicked" /\ ~PickAccepted

Count(seq, x) == Cardinality({i \in 1..Len(seq) : seq[i] = x})

PickOrder ==
    <<"AddItem", "GetNumChildren", "GetChildHandle", "GetKeyHandle", "SetValue",
      "Initialize", "ForceRefreshDetails">>

IsPrefix(s, t) == Len(s) <= Len(t) /\ \A i \in 1..Len(s) : s[i] = t[i]

\* C1: every pick with a non-null node and a non-null component adds exactly
\* one entry to Components, that entry's key is the string form of the picked
\* UUID, Initialize ran once on that entry with the same UUID, and exactly
\* one refresh was requested.
C1_AcceptedPickAddsOneEntry ==
    PickAccepted =>
        /\ Len(Components) = Len(ev.before) + 1
        /\ \A i \in 1..Len(ev.before) : Components[i] = ev.before[i]
        /\ Components[Len(Components)].key = UuidToString(ev.node)
        /\ Components[Len(Components)].value = ev.node
        /\ ev.child = Len(Components)
        /\ Count(calls, "Initialize") = 1
        /\ Count(calls, "ForceRefreshDetails") = 1

\* C2: a pick whose node is null or whose component reference is null does
\* nothing: Components is unchanged, no key is set, Initialize is not called
\* and no refresh is requested.
C2_RefusedPickDoesNothing ==
    [][(/\ ev'.op = "OnPicked"
        /\ \/ ev'.node = NullNode
           \/ widgets[ev'.widget].component = NullObj
           \/ widgets[ev'.widget].component \notin liveObjects)
       => /\ Components' = Components
          /\ builders' = builders
          /\ widgets' = widgets
          /\ crashed' = crashed
          /\ accepted' = accepted
          /\ calls' = <<>>]_vars

\* a pick with a node was delivered after the component had been destroyed
C2_Witness ==
    /\ PickRefused
    /\ ev.node # NullNode
    /\ widgets[ev.widget].component = EntityObj
    /\ EntityObj \notin liveObjects
    /\ accepted > 0
    /\ Components = ev.before

\* C3: CustomizeDetails on an empty list of customized objects has no effect:
\* no property handle is fetched, no category is registered, Render is not
\* called, no picker row is added and no pick callback is wired.
C3_EmptySelectionNoEffect ==
    /\ \A b \in 1..Len(builders) :
          builders[b].objs = <<>> =>
              /\ ~builders[b].handle
              /\ builders[b].categories = {}
              /\ builders[b].renders = 0
              /\ builders[b].rows = <<>>
              /\ builders[b].pickers = 0
              /\ builders[b].refreshes = 0
              /\ \A w \in 1..Len(widgets) : widgets[w].builder # b
    /\ (ev.op = "CustomizeDetails" /\ ev.objs = <<>>) =>
              calls = <<"GetObjectsBeingCustomized">>

\* the panel was drawn for an empty selection while the map had entries
C3_Witness ==
    /\ ev.op = "CustomizeDetails"
    /\ ev.objs = <<>>
    /\ Len(Components) > 0
    /\ Len(builders) > 1
    /\ Len(widgets) > 0

\* C4: CustomizeDetails on a non-empty list fetches the Components handle,
\* registers the "Rust" category, calls Render exactly once and adds exactly
\* one picker row whose widget's delegate is the entry-adding callback; the
\* existing entries are rendered before the picker row, so the picker row
\* comes after them.
C4_LayoutOfNonEmptySelection ==
    /\ \A b \in 1..Len(builders) :
          builders[b].objs # <<>> =>
              LET rows == builders[b].rows IN
              /\ builders[b].handle
              /\ builders[b].categories = {"Rust"}
              /\ builders[b].renders = 1
              /\ builders[b].pickers = 1
              /\ Len(rows) >= 1
              /\ rows[Len(rows)] = "Picker"
              /\ \A i \in 1..(Len(rows) - 1) : rows[i] = "Component"
              /\ Cardinality({w \in 1..Len(widgets) : widgets[w].builder = b}) = 1
              /\ \A w \in 1..Len(widgets) :
                    widgets[w].builder = b => widgets[w].delegate = "OnPicked"
    /\ (ev.op = "CustomizeDetails" /\ ev.objs # <<>>) =>
          /\ Len(builders[Len(builders)].rows) = Len(Components) + 1
          /\ calls = <<"GetObjectsBeingCustomized", "GetProperty", "EditCategory",
                       "Render", "AddCustomRow">>

\* the panel was drawn for a component whose map held two entries
C4_Witness ==
    /\ ev.op = "CustomizeDetails"
    /\ ev.objs # <<>>
    /\ Len(Components) >= 2
    /\ builders[Len(builders)].rows = <<"Component", "Component", "Picker">>

C6_MapChangesOnlyInAcceptedPick ==
    [][Components' # Components =>
          /\ ev'.op = "OnPicked"
          /\ ev'.node # NullNode
          /\ widgets[ev'.widget].component # NullObj
          /\ widgets[ev'.widget].component \in liveObjects]_vars

\* the panel was drawn again after an accepted pick and the map stayed as it was
C6_Witness ==
    /\ ev.op = "CustomizeDetails"
    /\ ev.objs # <<>>
    /\ accepted > 0
    /\ Len(builders) > 1
    /\ Components = ev.before
    /\ Len(Components) > initLen

\* C7: in every accepted pick the child whose key is overwritten and whose
\* value is initialised is the entry this pick's AddItem appended, never an
\* entry that existed before, and NumChildren is at least 1 when the index
\* NumChildren - 1 is computed.
C7_PickedChildIsTheNewEntry ==
    PickAccepted =>
        /\ ev.num # ToU32(0)
        /\ ev.child = Len(ev.before) + 1

\* C8: a pick callback never calls ForceRefreshDetails on a layout builder
\* that has been destroyed or replaced.
C8_NoRefreshOnDeadBuilder ==
    ev.op = "OnPicked" => ~ev.stale

\* C9: no two entries of Components have the same key, and the number of
\* entries is the initial number plus the number of accepted picks.
C9_UniqueKeysAndCount ==
    /\ \A i, j \in 1..Len(Components) :
          Components[i].key = Components[j].key => i = j
    /\ Len(Components) = initLen + accepted

====
